---------------------------- MODULE Spec2Model ----------------------------
(***************************************************************************)
(* A state-machine model of the GLSL WebUI rendering core:                 *)
(*   - ShaderCompiler (shader-compiler.js) and the WebGL helpers           *)
(*     createShader / createProgram / getTransformedTexCoords,             *)
(*   - GLSLWebUIApp (main.js, as listed in DEVELOPMENT.md): shader         *)
(*     compilation, the time model, the render step, the transform         *)
(*     state, image load/unload and the undo/redo history,                 *)
(*   - ExportUtils.exportAnimation's frame loop,                           *)
(*   - StorageManager (storage-manager.js): the save slots, by mouse and   *)
(*     by touch.                                                           *)
(*                                                                         *)
(* A handler of the program is a function from the state record to the    *)
(* state record (the handler's sequential statements are function         *)
(* composition); an action commits the record a handler returns.          *)
(*                                                                         *)
(* Representation choices:                                                 *)
(*   - JavaScript null is Null (0); WebGL object handles are 1..NumHandles.*)
(*     A handle that is neither live nor referenced by any field is        *)
(*     unobservable, so a new object takes the smallest such handle.       *)
(*   - Date.now() is the variable now, in milliseconds.  Values the code   *)
(*     holds in seconds (pausedTime, the time uniform, export times) are   *)
(*     held in fixed point, as whole milliseconds: x / 1000.0 is exact.    *)
(*   - history is 1-based here and 0-based in the code: history[i] of the  *)
(*     code is history[i + 1] of the model; historyIndex keeps the code's  *)
(*     0-based value (-1 when empty).                                      *)
(*   - seq (in a history entry), pushes and lastOp are ghost state: the    *)
(*     ordinal of the push that made an entry, the number of pushes so     *)
(*     far, and the last operation taken with its branch and the cursor    *)
(*     it started from.  drawn is the log of the gl.drawArrays calls of    *)
(*     the last operation (Cur starts every operation with an empty log);  *)
(*     texCall is the last direct call of getTransformedTexCoords, and     *)
(*     calls the log of the calls the last operation made.                 *)
(*   - canvasShared records which history entries hold the very object     *)
(*     this.canvasState refers to, so that a write to that object changes  *)
(*     them too; a copy ({ ...obj }) shares nothing.                       *)
(*   - localStorage is the items slotItems and appStateItem; JSON text is  *)
(*     a tagged tuple of the fields.  A timer that is pending may come due *)
(*     at any time (800 ms and 50 ms are not measured on the clock).       *)
(*   - requestAnimationFrame ids are 1..NumFrameIds; rafQueue is the       *)
(*     browser's list of requested and not yet run or cancelled callbacks. *)
(*     An id that is not pending is unobservable, so a request takes the   *)
(*     smallest such id.                                                   *)
(***************************************************************************)
EXTENDS Integers, Sequences, FiniteSets, TLC

\* ------------------------------------------------------------------ bounds
\* The clock runs from 0 to MaxNow * TickMs.
MaxNow == 2
\* Number of saveToHistory calls a behaviour of Spec may make.
MaxPushes == 3
\* Number of saveToHistory calls a behaviour of SpecHistory may make
\* (above maxHistory, so that the oldest entries are evicted).
MaxLongPushes == 52
\* Save slots on the page (the application has 5).
NumSlots == 2
\* Touch timers pending at the same time.
MaxTimers == 2
\* WebGL object handles available at the same time.
NumHandles == 6
\* Images the user can load.
NumImages == 1
\* Animation frame requests pending at the same time.
NumFrameIds == 2
\* History pushes in one run of SpecCompileEffect.
MaxEffectPushes == 2
\* Image loads the user requests in one run.
MaxRequests == 3
\* Animation frame requests of the fullscreen preview pending at the same
\* time.
MaxFsFrames == 2
\* Direct calls of getTransformedTexCoords pass rotations of
\* -MaxTurn * 45 .. MaxTurn * 45 degrees.
MaxTurn == 16

\* ------------------------------------------------------- program constants
\* this.maxHistory = 50
maxHistory == 50
\* One step of the clock, in milliseconds.
TickMs == 500

Null == 0
\* null in a field that otherwise holds a time (times are never negative).
NullTime == -1
Handles == 1..NumHandles
Images == 1..NumImages
\* The images of the loads in flight: two different ones at least.
LoadableImages == 1..(NumImages + 1)
FrameIds == 1..NumFrameIds
\* Ids of the fullscreen preview's frame requests: enough for the pending
\* ones and the one fsAnimFrame still holds.
FsFrameIds == 1..(MaxFsFrames + 1)
Slots == 1..NumSlots
\* setTimeout ids: enough for the pending timers, the one each slot's
\* touchTimer still holds, and a new one.
TimerIds == 1..(MaxTimers + NumSlots + 1)

\* ------------------------------------------------------------ shader texts
\* The fragment sources the textarea can hold: the empty text, a blank
\* text, two sources that compile and link, one that fails to compile, one
\* that compiles but fails to link.
GoodTexts == {"A", "B"}
ShaderTexts == {"", " ", "badc", "badl"} \cup GoodTexts
DefaultFragment == "dflt"
DefaultVertex == "vdef"

\* String.prototype.trim on the texts above: only the blank text has
\* white space to strip.
Trim(t) == IF t = " " THEN "" ELSE t

\* gl.getShaderParameter(shader, COMPILE_STATUS) for a source.
CompileStatus(source) == source \in GoodTexts \cup {"badl", DefaultFragment, DefaultVertex}

\* gl.getProgramParameter(program, LINK_STATUS) for the two sources.
LinkStatus(vsrc, fsrc) == CompileStatus(vsrc) /\ CompileStatus(fsrc) /\ fsrc # "badl"

\* ------------------------------------------------------------- arithmetic
\* Mutant of JsRem: the remainder is never negative (floored modulo).
JsRemFloor(a, b) == a % b

\* JavaScript's % : the remainder takes the sign of the dividend.
JsRem(a, b) == IF a >= 0 THEN a % b ELSE -((-a) % b)

\* ------------------------------------------------- texture coordinates
\* Mutant of BaseTexCoords: the tables of 90 and 270 degrees change places.
BaseTexCoordsSwapped(rotation) ==
    CASE JsRem(rotation, 360) = 0   -> <<0, 1, 1, 1, 0, 0, 1, 0>>
      [] JsRem(rotation, 360) = 90  -> <<1, 1, 1, 0, 0, 1, 0, 0>>
      [] JsRem(rotation, 360) = 180 -> <<1, 0, 0, 0, 1, 1, 0, 1>>
      [] JsRem(rotation, 360) = 270 -> <<0, 0, 0, 1, 1, 0, 1, 1>>
      [] OTHER                      -> <<0, 1, 1, 1, 0, 0, 1, 0>>

\* The base table of getTransformedTexCoords' switch (rotation % 360).
BaseTexCoords(rotation) ==
    CASE JsRem(rotation, 360) = 0   -> <<0, 1, 1, 1, 0, 0, 1, 0>>
      [] JsRem(rotation, 360) = 90  -> <<0, 0, 0, 1, 1, 0, 1, 1>>
      [] JsRem(rotation, 360) = 180 -> <<1, 0, 0, 0, 1, 1, 0, 1>>
      [] JsRem(rotation, 360) = 270 -> <<1, 1, 1, 0, 0, 1, 0, 0>>
      [] OTHER                      -> <<0, 1, 1, 1, 0, 0, 1, 0>>

\* The two mirroring loops: code index i (0-based) is model index i + 1, so
\* the U components are the odd model indices, the V components the even.
MirrorCoords(t, mx, my) ==
    [i \in 1..Len(t) |->
        IF i % 2 = 1
        THEN (IF mx THEN 1 - t[i] ELSE t[i])
        ELSE (IF my THEN 1 - t[i] ELSE t[i])]

getTransformedTexCoords(rot, mx, my) == MirrorCoords(BaseTexCoords(rot), mx, my)

\* initBuffers: the initial contents of the texture-coordinate buffer.
InitTexCoord == <<0, 1, 1, 1, 0, 0, 1, 0>>

\* No direct call of getTransformedTexCoords yet.
NoTexCall == [rotation |-> 0, mirrorX |-> FALSE, mirrorY |-> FALSE, result |-> <<>>]


\* ------------------------------------------------------------------ state
VARIABLES
    \* GLSLWebUIApp
    codeText,        \* codeTextarea.value
    shaderActive,
    rotation, mirrorX, mirrorY,
    canvasState,     \* {x, y, width, height}
    zoomLevel, bgColor, useTransparent,
    canvasStyle,     \* canvas.style: the scale of its transform, its background
    canvasSize,      \* canvas.width and canvas.height
    canvasShared,    \* the push ordinals of the history entries whose
                     \* canvasState is the object this.canvasState refers to
    history, historyIndex,
    startTime, pausedTime, timePaused,
    image,           \* Null or the loaded image
    imageTexture,    \* Null or a texture handle
    program,         \* Null or a program handle (GLSLWebUIApp.program)
    texCoord,        \* contents of buffers.texCoord
    animFrame,       \* Null or the id of the requested animation frame
    rafQueue,        \* the ids of the callbacks the browser has pending
    \* ShaderCompiler
    currentProgram, vertexShader, fragmentShader,
    \* WebGL context
    glShaders, glPrograms, glTextures,   \* created and not deleted
    glUsed,          \* the program made current by gl.useProgram
    uTime,           \* the value gl.uniform1f last set for the time uniform
    drawn,           \* the gl.drawArrays calls of the last operation
    \* StorageManager
    slotItems,       \* localStorage: the item of each slot, or NoItem
    appStateItem,    \* localStorage: the app-state item, or NoItem
    activeSlot,      \* Null or a slot number
    touch,           \* per slot, setupTouchHold's touchStarted and touchTimer,
                     \* and whether the hold timer of the current touch fired
    timers,          \* the pending setTimeout callbacks of setupTouchHold
    storageRefuses,  \* whether localStorage.setItem throws (quota, private mode)
    fullscreen,   \* fsContainer.style.display, fsGl, fsTimePaused,
                     \* fsAnimFrame and the pending callbacks of the preview
    currentImage,   \* ImageHandler.currentImage
    loads,   \* the image loads in flight, the ordinal of the last
                     \* request and of the request the current image is from
    glSource,   \* ghost: the fragment source of the last link, and of the
                \* program gl.useProgram made current
    \* ExportUtils.exportAnimation in progress
    export,
    \* the last direct call of getTransformedTexCoords
    texCall,
    \* environment and ghost state
    now, pushes, lastOp,
    calls            \* the calls of updateTransform, updateCanvasDisplay,
                     \* compileShader, handleSlotClick and handleSlotRightClick
                     \* the last operation made, in order

vars == <<codeText, shaderActive, rotation, mirrorX, mirrorY, canvasState,
          zoomLevel, bgColor, useTransparent, history, historyIndex,
          startTime, pausedTime, timePaused, image, imageTexture, program,
          texCoord, animFrame, rafQueue, currentProgram, vertexShader,
          fragmentShader, glShaders, glPrograms, glTextures, glUsed, uTime,
          drawn, export, texCall, now, pushes, lastOp, canvasStyle, calls,
          canvasSize, canvasShared, slotItems, appStateItem, activeSlot,
          touch, timers, storageRefuses,
          fullscreen, currentImage, loads, glSource>>

\* Ghost: the push ordinal of the entry at the cursor (0 without one), and
\* whether the cursor is at the tip.
CursorSeq ==
    IF historyIndex >= 0 /\ historyIndex < Len(history)
    THEN history[historyIndex + 1].seq
    ELSE 0

AtTip == historyIndex = Len(history) - 1

\* The state as one record, with the draw log empty for the operation that
\* starts from it, and the commit of a record as the next state; lastOp
\* records the operation with the cursor it started from.
Cur ==
    [codeText |-> codeText, shaderActive |-> shaderActive,
     rotation |-> rotation, mirrorX |-> mirrorX, mirrorY |-> mirrorY,
     canvasState |-> canvasState, zoomLevel |-> zoomLevel,
     bgColor |-> bgColor, useTransparent |-> useTransparent,
     history |-> history, historyIndex |-> historyIndex,
     startTime |-> startTime, pausedTime |-> pausedTime,
     timePaused |-> timePaused, image |-> image,
     imageTexture |-> imageTexture, program |-> program,
     texCoord |-> texCoord, animFrame |-> animFrame,
     rafQueue |-> rafQueue, drawn |-> <<>>, texCall |-> texCall,
     currentProgram |-> currentProgram, vertexShader |-> vertexShader,
     fragmentShader |-> fragmentShader, glShaders |-> glShaders,
     glPrograms |-> glPrograms, glTextures |-> glTextures,
     glUsed |-> glUsed, uTime |-> uTime, export |-> export,
     now |-> now, pushes |-> pushes, lastOp |-> lastOp,
     glSource |-> glSource,
     loads |-> loads,
     currentImage |-> currentImage,
     fullscreen |-> fullscreen,
     canvasStyle |-> canvasStyle, calls |-> <<>>,
     canvasSize |-> canvasSize, canvasShared |-> canvasShared,
     slotItems |-> slotItems, appStateItem |-> appStateItem,
     activeSlot |-> activeSlot, touch |-> touch, timers |-> timers,
     storageRefuses |-> storageRefuses]

Commit(s, op) ==
    /\ codeText' = s.codeText
    /\ shaderActive' = s.shaderActive
    /\ rotation' = s.rotation
    /\ mirrorX' = s.mirrorX
    /\ mirrorY' = s.mirrorY
    /\ canvasState' = s.canvasState
    /\ zoomLevel' = s.zoomLevel
    /\ bgColor' = s.bgColor
    /\ useTransparent' = s.useTransparent
    /\ history' = s.history
    /\ historyIndex' = s.historyIndex
    /\ startTime' = s.startTime
    /\ pausedTime' = s.pausedTime
    /\ timePaused' = s.timePaused
    /\ image' = s.image
    /\ imageTexture' = s.imageTexture
    /\ program' = s.program
    /\ texCoord' = s.texCoord
    /\ animFrame' = s.animFrame
    /\ rafQueue' = s.rafQueue
    /\ drawn' = s.drawn
    /\ texCall' = s.texCall
    /\ currentProgram' = s.currentProgram
    /\ vertexShader' = s.vertexShader
    /\ fragmentShader' = s.fragmentShader
    /\ glShaders' = s.glShaders
    /\ glPrograms' = s.glPrograms
    /\ glTextures' = s.glTextures
    /\ glUsed' = s.glUsed
    /\ uTime' = s.uTime
    /\ export' = s.export
    /\ now' = s.now
    /\ pushes' = s.pushes
    /\ canvasStyle' = s.canvasStyle
    /\ canvasSize' = s.canvasSize
    /\ canvasShared' = s.canvasShared
    /\ slotItems' = s.slotItems
    /\ appStateItem' = s.appStateItem
    /\ activeSlot' = s.activeSlot
    /\ touch' = s.touch
    /\ timers' = s.timers
    /\ storageRefuses' = s.storageRefuses
    /\ glSource' = s.glSource
    /\ loads' = s.loads
    /\ currentImage' = s.currentImage
    /\ fullscreen' = s.fullscreen
    /\ calls' = s.calls
    /\ lastOp' = [name |-> op, seq |-> CursorSeq, tip |-> AtTip]

\* ----------------------------------------------------------- WebGL objects
\* The handles some field still refers to, and the handles of live objects.
Referenced(s) ==
    {s.program, s.currentProgram, s.vertexShader, s.fragmentShader,
     s.imageTexture, s.glUsed} \ {Null}

Live(s) == s.glShaders \cup s.glPrograms \cup s.glTextures

\* gl.createShader / gl.createProgram / gl.createTexture: a new object.
NewHandle(s) ==
    CHOOSE h \in Handles \ (Referenced(s) \cup Live(s)) :
        \A g \in Handles \ (Referenced(s) \cup Live(s)) : h <= g

\* Mutant of createShader: the shader that failed to compile is not
\* deleted.
createShaderNoDelete(s, source) ==
    LET made == [s EXCEPT !.glShaders = @ \cup {NewHandle(s)}]
    IN  IF CompileStatus(source)
        THEN [st |-> made, h |-> NewHandle(s)]
        ELSE [st |-> made, h |-> Null]

\* createShader(gl, type, source): the shader, or null after deleting the
\* shader that failed to compile.  Returns the state and the result.
createShader(s, source) ==
    LET made == [s EXCEPT !.glShaders = @ \cup {NewHandle(s)}]
    IN  IF CompileStatus(source)
        THEN [st |-> made, h |-> NewHandle(s)]
        ELSE [st |-> [made EXCEPT !.glShaders = @ \ {NewHandle(s)}], h |-> Null]

\* createProgram(gl, vertexShader, fragmentShader, ...): the linked program,
\* or null after deleting the program that failed to link.  linked is the
\* link status of the two attached shaders.
createProgram(s, linked) ==
    LET made == [s EXCEPT !.glPrograms = @ \cup {NewHandle(s)}]
    IN  IF linked
        THEN [st |-> made, h |-> NewHandle(s)]
        ELSE [st |-> [made EXCEPT !.glPrograms = @ \ {NewHandle(s)}], h |-> Null]

\* ----------------------------------------------------------- ShaderCompiler
\* cleanup(): deletes the two shaders and the current program and forgets
\* them.
cleanup(s) ==
    [s EXCEPT !.glShaders = @ \ {s.vertexShader, s.fragmentShader},
              !.glPrograms = @ \ {s.currentProgram},
              !.vertexShader = Null,
              !.fragmentShader = Null,
              !.currentProgram = Null]

\* compileProgram(vertexSource, fragmentSource), in its steps: after the
\* vertex stage, after the fragment stage, after linking.
AfterVertex(s, vsrc) ==
    LET r == createShader(cleanup(s), vsrc)
    IN  [r.st EXCEPT !.vertexShader = r.h]

AfterFragment(s, vsrc, fsrc) ==
    LET s1 == AfterVertex(s, vsrc)
        r  == createShader(s1, fsrc)
    IN  IF s1.vertexShader = Null THEN s1
        ELSE [r.st EXCEPT !.fragmentShader = r.h]

\* The state compileProgram leaves; its return value is currentProgram of
\* that state when all three steps succeeded and null otherwise.
compileProgram(s, vsrc, fsrc) ==
    LET s2 == AfterFragment(s, vsrc, fsrc)
        r  == createProgram(s2, LinkStatus(vsrc, fsrc))
    IN  IF s2.vertexShader = Null \/ s2.fragmentShader = Null THEN s2
        ELSE [r.st EXCEPT !.currentProgram = r.h,
                          !.glSource = [linked |-> fsrc, used |-> @.used]]

compileResult(s, vsrc, fsrc) == compileProgram(s, vsrc, fsrc).currentProgram

\* recompile(fragmentSource): compileProgram with the default vertex shader.
recompile(s, fsrc) == compileProgram(s, DefaultVertex, fsrc)

\* useProgram(): binds the current program when there is one.
useProgram(s) ==
    IF s.currentProgram # Null
    THEN [s EXCEPT !.glUsed = s.currentProgram,
                   !.glSource = [linked |-> @.linked, used |-> @.linked]]
    ELSE s

\* ------------------------------------------------------------ GLSLWebUIApp
\* render(): const currentTime = timePaused ? pausedTime : (now - startTime) / 1000
RenderTime(s) == IF s.timePaused THEN s.pausedTime ELSE s.now - s.startTime

\* setUniform('time', value, '1f'): getUniformLocation returns null without
\* a current program, and then nothing is set.
setUniform(s, value) ==
    IF s.currentProgram = Null THEN s ELSE [s EXCEPT !.uTime = value]

\* renderQuad(gl): gl.drawArrays, logged with the manager's program, the
\* image texture and the value of the time uniform at the call.
renderQuad(s) ==
    [s EXCEPT !.drawn = Append(@, [program |-> s.currentProgram,
                                   texture |-> s.imageTexture,
                                   time |-> s.uTime])]

\* render(): returns at once without a program (gl and buffers exist from
\* construction on); otherwise binds the program, sets the time uniform to
\* currentTime and draws.
render(s) ==
    IF s.program = Null THEN s
    ELSE renderQuad(setUniform(useProgram(s), RenderTime(s)))

\* resetTime()
resetTime(s) ==
    [s EXCEPT !.startTime = s.now, !.pausedTime = NullTime, !.timePaused = FALSE]

\* togglePause()
togglePause(s) ==
    IF ~s.timePaused
    THEN [s EXCEPT !.timePaused = TRUE, !.pausedTime = s.now - s.startTime]
    ELSE [s EXCEPT !.timePaused = FALSE, !.pausedTime = NullTime, !.startTime = s.now]

\* updateTransform(): rewrites buffers.texCoord when an image is loaded.
updateTransform(s) ==
    LET c == [s EXCEPT !.calls = Append(@, "updateTransform")]
    IN  IF s.image = Null THEN c
        ELSE [c EXCEPT !.texCoord = getTransformedTexCoords(s.rotation, s.mirrorX, s.mirrorY)]

\* The size of a canvas element without width and height attributes.
DefaultCanvasSize == [width |-> 300, height |-> 150]

\* The canvas's style before the first updateCanvasDisplay: what the
\* stylesheet gives (no scale).
StylesheetStyle == [scale |-> 1, backgroundColor |-> "stylesheet"]

\* updateCanvasDisplay(): sets the canvas's scale and background from the
\* zoom level and the colour fields (resizeCanvas is called with the
\* canvas's own size).
updateCanvasDisplay(s) ==
    [s EXCEPT !.canvasStyle = [scale |-> s.zoomLevel,
                               backgroundColor |-> IF s.useTransparent
                                                   THEN "transparent"
                                                   ELSE s.bgColor],
              !.calls = Append(@, "updateCanvasDisplay")]

\* Width and height of an image.
ImageWidth(img) == 2 * img
ImageHeight(img) == 2

\* this.canvasState = {...}: the field refers to a new object, which no
\* history entry holds.
NewCanvasState(s, c) == [s EXCEPT !.canvasState = c, !.canvasShared = {}]

\* A write to the properties of the object this.canvasState refers to:
\* every holder of that object sees it.
WriteCanvasState(s, c) ==
    [s EXCEPT !.canvasState = c,
              !.history = [i \in DOMAIN s.history |->
                              IF s.history[i].seq \in s.canvasShared
                              THEN [s.history[i] EXCEPT !.canvasState = c]
                              ELSE s.history[i]]]

\* saveToHistory(): the snapshot it takes of the state.
HistoryEntry(s) ==
    [seq |-> s.pushes + 1,
     shaderCode |-> s.codeText,
     rotation |-> s.rotation,
     mirrorX |-> s.mirrorX,
     mirrorY |-> s.mirrorY,
     canvasState |-> s.canvasState,
     zoomLevel |-> s.zoomLevel,
     bgColor |-> s.bgColor,
     useTransparent |-> s.useTransparent]

\* Mutant of PushEntry: the push without the eviction.
PushEntryNoShift(h, e) == Append(h, e)

\* Mutant of PushEntry: the eviction takes the newest entry (pop for shift).
PushEntryPop(h, e) ==
    IF Len(Append(h, e)) > maxHistory
    THEN SubSeq(Append(h, e), 1, maxHistory)
    ELSE Append(h, e)

\* this.history.push(state); if (this.history.length > this.maxHistory)
\* this.history.shift();
PushEntry(h, e) ==
    IF Len(Append(h, e)) > maxHistory THEN Tail(Append(h, e)) ELSE Append(h, e)

\* Mutant of TipIndex: the length for the last index.
TipIndexLength(h) == Len(h)

\* this.historyIndex = this.history.length - 1
TipIndex(h) == Len(h) - 1

\* Mutant of saveToHistory: the entry holds this.canvasState itself, not a
\* copy of it.
saveToHistoryNoCopy(s) ==
    [s EXCEPT !.history = PushEntry(s.history, HistoryEntry(s)),
              !.historyIndex = TipIndex(PushEntry(s.history, HistoryEntry(s))),
              !.pushes = @ + 1,
              !.canvasShared = @ \cup {s.pushes + 1}]

\* saveToHistory(): canvasState: { ...this.canvasState } gives the entry an
\* object of its own.
saveToHistory(s) ==
    [s EXCEPT !.history = PushEntry(s.history, HistoryEntry(s)),
              !.historyIndex = TipIndex(PushEntry(s.history, HistoryEntry(s))),
              !.pushes = @ + 1]

\* compileShader(): the outcome of the compile it attempts.
CompileOutcome(s) ==
    IF Trim(s.codeText) = "" THEN "empty"
    ELSE IF compileResult(s, DefaultVertex, Trim(s.codeText)) = Null THEN "failed"
    ELSE "ok"

\* compileShader(): what it does once the program has been compiled.
AfterCompile(s) == saveToHistory(render(resetTime(useProgram(s))))

\* Mutant of compileShader: a compile that fails resets the time as well.
compileShaderResetsOnFailure(s0) ==
    LET s == [s0 EXCEPT !.calls = Append(@, "compileShader")]
        c == compileProgram(s, DefaultVertex, Trim(s.codeText))
    IN  CASE CompileOutcome(s) = "empty"  -> s
          [] CompileOutcome(s) = "failed" -> resetTime(c)
          [] OTHER -> AfterCompile([c EXCEPT !.program = c.currentProgram])

\* compileShader()
compileShader(s0) ==
    LET s == [s0 EXCEPT !.calls = Append(@, "compileShader")]
        c == compileProgram(s, DefaultVertex, Trim(s.codeText))
    IN  CASE CompileOutcome(s) = "empty"  -> s
          [] CompileOutcome(s) = "failed" -> c
          [] OTHER -> AfterCompile([c EXCEPT !.program = c.currentProgram])

\* compileDefaultShader()
compileDefaultShader(s) ==
    LET c == compileProgram(s, DefaultVertex, DefaultFragment)
        p == [c EXCEPT !.program = c.currentProgram]
    IN  render(IF p.program # Null THEN useProgram(p) ELSE p)

\* toggleShader()
toggleShader(s) ==
    IF ~s.shaderActive
    THEN compileShader([s EXCEPT !.shaderActive = TRUE])
    ELSE compileDefaultShader([s EXCEPT !.shaderActive = FALSE])

\* setRotation(degrees)
setRotation(s, degrees) ==
    saveToHistory(render(updateTransform([s EXCEPT !.rotation = JsRem(degrees, 360)])))

\* toggleMirrorX()
toggleMirrorX(s) ==
    saveToHistory(render(updateTransform([s EXCEPT !.mirrorX = ~s.mirrorX])))

\* toggleMirrorY()
toggleMirrorY(s) ==
    saveToHistory(render(updateTransform([s EXCEPT !.mirrorY = ~s.mirrorY])))

\* resetMirror()
resetMirror(s) ==
    saveToHistory(render(updateTransform([s EXCEPT !.mirrorX = FALSE, !.mirrorY = FALSE])))

\* resetAllParameters()
resetAllParameters(s) ==
    LET d == [s EXCEPT !.rotation = 0, !.mirrorX = FALSE, !.mirrorY = FALSE,
                       !.zoomLevel = 1, !.bgColor = "#000000",
                       !.useTransparent = TRUE]
        c == IF s.image # Null
             THEN NewCanvasState(d, [x |-> 0, y |-> 0,
                                     width |-> ImageWidth(s.image),
                                     height |-> ImageHeight(s.image)])
             ELSE d
    IN  saveToHistory(render(updateCanvasDisplay(updateTransform(c))))

\* setZoom(zoom): Math.max(0.1, Math.min(5, zoom)), for a zoom of 1 or more.
setZoom(s, zoom) ==
    updateCanvasDisplay([s EXCEPT !.zoomLevel = IF zoom > 5 THEN 5 ELSE zoom])

\* applyAspectRatio(width, height): writes the width and the height of
\* this.canvasState in place.  The quotients are exact for the ratios and
\* the image sizes used here.
applyAspectRatio(s, width, height) ==
    IF s.image = Null \/ width <= 0 \/ height <= 0 THEN s
    ELSE LET iw == ImageWidth(s.image)
             ih == ImageHeight(s.image)
             c  == IF width * ih > iw * height
                   THEN [s.canvasState EXCEPT !.height = ih,
                                              !.width = (ih * width) \div height]
                   ELSE [s.canvasState EXCEPT !.width = iw,
                                              !.height = (iw * height) \div width]
             d  == [WriteCanvasState(s, c) EXCEPT
                        !.canvasSize = [width |-> c.width, height |-> c.height]]
         IN  saveToHistory(render(updateCanvasDisplay(d)))

\* setCanvasTransform(transform): Object.assign(this.canvasState, transform)
\* with the {x, y, width, height} the panel passes; a width or height of 0
\* leaves that dimension of the canvas as it is.
setCanvasTransform(s, transform) ==
    LET d == [WriteCanvasState(s, transform) EXCEPT
                  !.canvasSize = [width  |-> IF transform.width # 0
                                             THEN transform.width
                                             ELSE s.canvasSize.width,
                                  height |-> IF transform.height # 0
                                             THEN transform.height
                                             ELSE s.canvasSize.height]]
    IN  saveToHistory(render(updateCanvasDisplay(d)))

\* resetCanvasTransform()
resetCanvasTransform(s) ==
    IF s.image = Null THEN s
    ELSE LET c == [x |-> 0, y |-> 0, width |-> ImageWidth(s.image),
                   height |-> ImageHeight(s.image)]
             d == [NewCanvasState(s, c) EXCEPT
                       !.canvasSize = [width |-> c.width, height |-> c.height]]
         IN  saveToHistory(render(updateCanvasDisplay(d)))

\* applyHistoryState(state): the fields it restores from the entry.
RestoreFields(s, e) ==
    [s EXCEPT !.codeText = e.shaderCode,
              !.rotation = e.rotation,
              !.mirrorX = e.mirrorX,
              !.mirrorY = e.mirrorY,
              !.canvasState = e.canvasState,
              !.canvasShared = {},
              !.zoomLevel = e.zoomLevel,
              !.bgColor = e.bgColor,
              !.useTransparent = e.useTransparent]

\* Mutant of applyHistoryState: the shader is compiled before the canvas
\* display is updated.
applyHistoryStateCompileFirst(s, e) ==
    updateCanvasDisplay(compileShader(updateTransform(RestoreFields(s, e))))

\* applyHistoryState(state)
applyHistoryState(s, e) ==
    compileShader(updateCanvasDisplay(updateTransform(RestoreFields(s, e))))

\* undo(): if (this.historyIndex > 0)
CanUndo(s) == s.historyIndex > 0

\* redo(): if (this.historyIndex < this.history.length - 1)
CanRedo(s) == s.historyIndex < Len(s.history) - 1

\* Mutant of undo: the shader is recompiled outside the if as well.
undoRecompiles(s) ==
    IF CanUndo(s)
    THEN applyHistoryState([s EXCEPT !.historyIndex = @ - 1], s.history[s.historyIndex])
    ELSE compileShader(s)

\* undo()
undo(s) ==
    IF CanUndo(s)
    THEN applyHistoryState([s EXCEPT !.historyIndex = @ - 1], s.history[s.historyIndex])
    ELSE s

\* redo()
redo(s) ==
    IF CanRedo(s)
    THEN applyHistoryState([s EXCEPT !.historyIndex = @ + 1], s.history[s.historyIndex + 2])
    ELSE s

\* Mutant of onImageLoaded: the previous texture is not deleted.
onImageLoadedNoDelete(s, img) ==
    LET d == [s EXCEPT !.image = img,
                       !.canvasSize = [width |-> ImageWidth(img),
                                       height |-> ImageHeight(img)],
                       !.canvasShared = {},
                       !.canvasState = [x |-> 0, y |-> 0,
                                        width |-> ImageWidth(img),
                                        height |-> ImageHeight(img)]]
        t == [d EXCEPT !.glTextures = @ \cup {NewHandle(d)},
                       !.imageTexture = NewHandle(d)]
    IN  saveToHistory(render(updateCanvasDisplay(t)))

\* onImageLoaded(image)
onImageLoaded(s, img) ==
    LET d == [s EXCEPT !.image = img,
                       !.canvasSize = [width |-> ImageWidth(img),
                                       height |-> ImageHeight(img)],
                       !.canvasShared = {},
                       !.canvasState = [x |-> 0, y |-> 0,
                                        width |-> ImageWidth(img),
                                        height |-> ImageHeight(img)],
                       !.glTextures = @ \ {s.imageTexture}]
        t == [d EXCEPT !.glTextures = @ \cup {NewHandle(d)},
                       !.imageTexture = NewHandle(d)]
    IN  saveToHistory(render(updateCanvasDisplay(t)))

\* The ways createImageTexture can fail without throwing: gl.createTexture
\* returns null (the context is lost), or gl.texImage2D records a GL error
\* and the new texture has no image.
TextureFailures == {"null", "noupload"}

\* onImageLoaded(image) when createImageTexture fails in one of these ways:
\* the code tests neither, and carries on with what createImageTexture
\* returned.
onImageLoadedTextureFails(s, img, outcome) ==
    LET d == [s EXCEPT !.image = img,
                       !.canvasSize = [width |-> ImageWidth(img),
                                       height |-> ImageHeight(img)],
                       !.canvasShared = {},
                       !.canvasState = [x |-> 0, y |-> 0,
                                        width |-> ImageWidth(img),
                                        height |-> ImageHeight(img)],
                       !.glTextures = @ \ {s.imageTexture}]
        t == IF outcome = "null"
             THEN [d EXCEPT !.imageTexture = Null]
             ELSE [d EXCEPT !.glTextures = @ \cup {NewHandle(d)},
                            !.imageTexture = NewHandle(d)]
    IN  saveToHistory(render(updateCanvasDisplay(t)))

\* requestAnimationFrame(callback): the id it returns.
NewFrameId(s) ==
    CHOOSE id \in FrameIds \ s.rafQueue :
        \A other \in FrameIds \ s.rafQueue : id <= other

\* cancelAnimationFrame(id)
cancelAnimationFrame(s, id) == [s EXCEPT !.rafQueue = @ \ {id}]

\* Mutant of stopRendering: the field is cleared and the request is left
\* pending.
stopRenderingNoCancel(s) ==
    IF s.animFrame # Null THEN [s EXCEPT !.animFrame = Null] ELSE s

\* stopRendering()
stopRendering(s) ==
    IF s.animFrame # Null
    THEN [cancelAnimationFrame(s, s.animFrame) EXCEPT !.animFrame = Null]
    ELSE s

\* animate(): renders and requests the next frame.
animate(s) ==
    LET r == render(s)
    IN  [r EXCEPT !.rafQueue = @ \cup {NewFrameId(r)}, !.animFrame = NewFrameId(r)]

\* Mutant of startRendering: the requested frame is not cancelled.
startRenderingNoCancel(s) == animate(s)

\* startRendering(): cancels the requested frame, then animates.
startRendering(s) ==
    animate(IF s.animFrame # Null THEN cancelAnimationFrame(s, s.animFrame) ELSE s)

\* No image load requested yet.
NoLoads == [pending |-> {}, requested |-> 0, current |-> 0]

\* ImageHandler.loadImageFromFile(file) and loadImageFromUrl(url) with an
\* image file or a non-empty URL: starts a load that ends with onload or
\* onerror.
loadImage(s, img) ==
    [s EXCEPT !.loads.pending = @ \cup {[img |-> img, ord |-> s.loads.requested + 1]},
              !.loads.requested = @ + 1]

\* img.onload of a load: sets currentImage and notifies the application.
imageOnload(s, img) == onImageLoaded([s EXCEPT !.currentImage = img], img)

\* img.onload when the creation or the upload of the texture fails.
imageOnloadTextureFails(s, img, outcome) ==
    onImageLoadedTextureFails([s EXCEPT !.currentImage = img], img, outcome)

\* The onload of the load l in flight.
loadDone(s, l) ==
    [imageOnload([s EXCEPT !.loads.pending = @ \ {l}], l.img)
        EXCEPT !.loads.current = l.ord]

\* The onload of the load l in flight, with a failing texture.
loadDoneTextureFails(s, l, outcome) ==
    [imageOnloadTextureFails([s EXCEPT !.loads.pending = @ \ {l}], l.img, outcome)
        EXCEPT !.loads.current = l.ord]

\* The onerror of the load l in flight: the promise is rejected, the
\* application logs the failure.
loadError(s, l) == [s EXCEPT !.loads.pending = @ \ {l}]

\* onImageUnloaded()
onImageUnloaded(s) ==
    stopRendering([s EXCEPT !.image = Null,
                            !.glTextures = @ \ {s.imageTexture},
                            !.imageTexture = Null])

\* ImageHandler.unloadImage(): notifies only when an image is loaded.
unloadImage(s) ==
    IF s.currentImage # Null
    THEN onImageUnloaded([s EXCEPT !.currentImage = Null, !.loads.current = 0])
    ELSE s

\* ------------------------------------------------- ExportUtils.exportAnimation
\* active: the MediaRecorder has been started and not stopped; times: the
\* times the render callback has been called with, in order.
NoExport ==
    [active |-> FALSE, frame |-> 0, total |-> 0, start |-> 0, interval |-> 0,
     times |-> <<>>]

\* GLSLWebUIApp.exportAnimation's renderCallback(time)
renderCallback(s, time) ==
    render([s EXCEPT !.pausedTime = time, !.export.times = Append(@, time)])

\* Mutant of exportFrame: the loop runs while frame <= totalFrames.
exportFrameOneMore(s) ==
    IF s.export.frame <= s.export.total
    THEN renderCallback(s, s.export.start + s.export.frame * s.export.interval)
    ELSE [s EXCEPT !.export = NoExport]

\* The body of the frame loop for the frame the export is at: the callback
\* with startTime + frame * frameInterval while frames remain, and
\* mediaRecorder.stop() after the last one.
exportFrame(s) ==
    IF s.export.frame < s.export.total
    THEN renderCallback(s, s.export.start + s.export.frame * s.export.interval)
    ELSE [s EXCEPT !.export = NoExport]

\* exportAnimation(canvas, options) up to its first sleep: duration and
\* startTime in seconds, fps in frames per second.
exportAnimation(s, duration, fps, start) ==
    exportFrame([s EXCEPT !.export = [active |-> TRUE, frame |-> 0,
                                      total |-> duration * fps,
                                      start |-> start * 1000,
                                      interval |-> 1000 \div fps,
                                      times |-> <<>>]])

\* exportAnimation after a sleep: the next turn of the frame loop.
exportResume(s) == exportFrame([s EXCEPT !.export.frame = @ + 1])

\* ---------------------------------------------------------- StorageManager
\* localStorage.getItem of a key that is not stored.
NoItem == <<>>

\* JSON.stringify and JSON.parse of a slot's data {shaderCode, timestamp,
\* name} and of the app state {activeSlot, lastSaved}.
StringifySlot(data) == <<"slot", data.shaderCode, data.timestamp, data.name>>
ParseSlot(item) == [shaderCode |-> item[2], timestamp |-> item[3], name |-> item[4]]
StringifyAppState(state) == <<"app-state", state.activeSlot, state.lastSaved>>
ParseAppState(item) == [activeSlot |-> item[2], lastSaved |-> item[3]]

\* getSlot(slotNumber) returns data, not null.
SlotFilled(s, n) == s.slotItems[n] # NoItem

\* generateSlotName(slotNumber): the shader texts here hold no comment and
\* none of the patterns it looks for.
generateSlotName(s, n) == <<"Custom", n>>

\* setSlot(slotNumber, data): a setItem that throws is caught.
setSlot(s, n, data) ==
    IF s.storageRefuses THEN s
    ELSE [s EXCEPT !.slotItems[n] = StringifySlot(data)]

\* saveAppState(): a setItem that throws is caught.
saveAppState(s) ==
    IF s.storageRefuses THEN s
    ELSE [s EXCEPT !.appStateItem =
              StringifyAppState([activeSlot |-> s.activeSlot, lastSaved |-> s.now])]

\* loadAppState()
loadAppState(s) ==
    IF s.appStateItem = NoItem THEN s
    ELSE [s EXCEPT !.activeSlot = ParseAppState(s.appStateItem).activeSlot]

\* setActiveSlot(slotNumber)
setActiveSlot(s, n) == saveAppState([s EXCEPT !.activeSlot = n])

\* saveToSlot(slotNumber): nothing for a blank text; the result of setSlot
\* is not looked at.
saveToSlot(s, n) ==
    IF Trim(s.codeText) = "" THEN s
    ELSE setActiveSlot(setSlot(s, n, [shaderCode |-> s.codeText,
                                      timestamp |-> s.now,
                                      name |-> generateSlotName(s, n)]), n)

\* loadSlot(slotNumber)
loadSlot(s, n) ==
    IF ~SlotFilled(s, n) THEN s
    ELSE setActiveSlot([s EXCEPT !.codeText = ParseSlot(s.slotItems[n]).shaderCode], n)

\* clearSlot(slotNumber)
clearSlot(s, n) ==
    [s EXCEPT !.slotItems[n] = NoItem,
              !.activeSlot = IF @ = n THEN Null ELSE @]

\* unloadSlot()
unloadSlot(s) == [s EXCEPT !.activeSlot = Null]

\* Mutant of handleSlotClick: it saves whether the slot is filled or not.
handleSlotClickAlwaysSaves(s, n) ==
    saveToSlot([s EXCEPT !.calls = Append(@, "handleSlotClick")], n)

\* handleSlotClick(slot)
handleSlotClick(s, n) ==
    LET c == [s EXCEPT !.calls = Append(@, "handleSlotClick")]
    IN  IF SlotFilled(s, n) THEN loadSlot(c, n) ELSE saveToSlot(c, n)

\* handleSlotRightClick(slot); confirmed is the answer to confirm().
handleSlotRightClick(s, n, confirmed) ==
    LET c == [s EXCEPT !.calls = Append(@, "handleSlotRightClick")]
    IN  IF SlotFilled(s, n) /\ confirmed THEN clearSlot(c, n) ELSE c

\* setupTouchHold(slot): let touchTimer = null; let touchStarted = false
NoTouch == [touchStarted |-> FALSE, touchTimer |-> Null, held |-> FALSE]

\* setTimeout: the id it returns, one never returned before as far as the
\* program can tell.
NewTimerId(s) ==
    LET used == {t.id : t \in s.timers} \cup {s.touch[n].touchTimer : n \in Slots}
    IN  CHOOSE id \in TimerIds \ used : \A j \in TimerIds \ used : id <= j

\* clearTimeout(id)
clearTimeout(s, id) == [s EXCEPT !.timers = {t \in @ : t.id # id}]

\* The touchstart listener: arms the hold timer.
touchstart(s, n) ==
    [s EXCEPT !.touch[n] = [touchStarted |-> TRUE, touchTimer |-> NewTimerId(s),
                            held |-> FALSE],
              !.timers = @ \cup {[id |-> NewTimerId(s), slot |-> n, kind |-> "hold",
                                  held |-> FALSE]}]

\* The touchend listener: clears the hold timer and, when touchStarted is
\* still set, arms the tap timer.
touchend(s, n) ==
    LET c == clearTimeout(s, s.touch[n].touchTimer)
    IN  IF ~s.touch[n].touchStarted THEN c
        ELSE [c EXCEPT !.touch[n].touchStarted = FALSE,
                       !.timers = @ \cup {[id |-> NewTimerId(c), slot |-> n,
                                           kind |-> "tap",
                                           held |-> s.touch[n].held]}]

\* The touchmove listener
touchmove(s, n) ==
    clearTimeout([s EXCEPT !.touch[n].touchStarted = FALSE], s.touch[n].touchTimer)

\* The callback of the hold timer (800 ms after touchstart).
holdTimeout(s, n, confirmed) ==
    IF s.touch[n].touchStarted
    THEN handleSlotRightClick([s EXCEPT !.touch[n].held = TRUE], n, confirmed)
    ELSE s

\* The callback of the tap timer (50 ms after touchend).
tapTimeout(s, n) ==
    IF ~s.touch[n].touchStarted THEN handleSlotClick(s, n) ELSE s

\* A timer comes due: it leaves the pending timers and its callback runs.
timeout(s, t, confirmed) ==
    LET c == [s EXCEPT !.timers = @ \ {t}]
    IN  IF t.kind = "hold" THEN holdTimeout(c, t.slot, confirmed)
        ELSE tapTimeout(c, t.slot)

\* -------------------------------------------------------- fullscreen preview
\* The preview as the constructor leaves it: hidden, without a context.
NoFullscreen ==
    [display |-> "none", fsGl |-> FALSE, fsTimePaused |-> FALSE,
     fsAnimFrame |-> Null, queue |-> {}]

\* requestAnimationFrame returns an id no pending request has; an id that
\* fsAnimFrame still holds is not given out again.
NewFsFrameId(s) ==
    LET free == FsFrameIds \ (s.fullscreen.queue \cup {s.fullscreen.fsAnimFrame})
    IN  CHOOSE id \in free : \A other \in free : id <= other

\* renderFullscreen(): a stub that draws nothing.
renderFullscreen(s) == [s EXCEPT !.calls = Append(@, "renderFullscreen")]

\* setupFullscreenCanvas(): a stub.
setupFullscreenCanvas(s) == s

\* animateFullscreen(): unless paused, renders and requests the next frame.
animateFullscreen(s) ==
    IF ~s.fullscreen.fsTimePaused
    THEN LET r == renderFullscreen(s)
         IN  [r EXCEPT !.fullscreen.queue = @ \cup {NewFsFrameId(r)},
                       !.fullscreen.fsAnimFrame = NewFsFrameId(r)]
    ELSE s

\* openFullscreen(): needs an image; shows the container, unpauses, gets
\* the context on first use (ctxOk: getContext returned one) and animates.
\* The requested frame is not cancelled.
openFullscreen(s, ctxOk) ==
    IF s.image = Null THEN s
    ELSE LET shown == [s EXCEPT !.fullscreen.display = "flex",
                                !.fullscreen.fsTimePaused = FALSE]
         IN  IF ~shown.fullscreen.fsGl /\ ~ctxOk THEN shown
             ELSE animateFullscreen(setupFullscreenCanvas(
                      [shown EXCEPT !.fullscreen.fsGl = TRUE]))

\* closeFullscreen(): hides the container and cancels the frame fsAnimFrame
\* holds.
closeFullscreen(s) ==
    LET hidden == [s EXCEPT !.fullscreen.display = "none"]
    IN  IF hidden.fullscreen.fsAnimFrame # Null
        THEN [hidden EXCEPT !.fullscreen.queue = @ \ {hidden.fullscreen.fsAnimFrame},
                            !.fullscreen.fsAnimFrame = Null]
        ELSE hidden

\* toggleFullscreenPause(): flips fsTimePaused; with a context, cancels the
\* frame fsAnimFrame holds and animates or renders once.
toggleFullscreenPause(s) ==
    LET t == [s EXCEPT !.fullscreen.fsTimePaused = ~@]
    IN  IF t.fullscreen.fsGl
        THEN LET c == IF t.fullscreen.fsAnimFrame # Null
                      THEN [t EXCEPT !.fullscreen.queue = @ \ {t.fullscreen.fsAnimFrame}]
                      ELSE t
             IN  IF ~c.fullscreen.fsTimePaused THEN animateFullscreen(c)
                 ELSE renderFullscreen(c)
        ELSE t

\* ------------------------------------------------------------ construction
\* initializeState() and the modules' constructors, with the textarea
\* holding text.
InitialState(text) ==
    [codeText |-> text, shaderActive |-> TRUE,
     rotation |-> 0, mirrorX |-> FALSE, mirrorY |-> FALSE,
     canvasState |-> [x |-> 0, y |-> 0, width |-> 0, height |-> 0],
     zoomLevel |-> 1, bgColor |-> "#000000", useTransparent |-> TRUE,
     history |-> <<>>, historyIndex |-> -1,
     startTime |-> 0, pausedTime |-> NullTime, timePaused |-> FALSE,
     image |-> Null, imageTexture |-> Null, program |-> Null,
     texCoord |-> InitTexCoord, animFrame |-> Null,
     rafQueue |-> {}, drawn |-> <<>>, texCall |-> NoTexCall,
     currentProgram |-> Null, vertexShader |-> Null, fragmentShader |-> Null,
     glShaders |-> {}, glPrograms |-> {}, glTextures |-> {},
     glUsed |-> Null, uTime |-> NullTime, export |-> NoExport,
     now |-> 0, pushes |-> 0,
     glSource |-> [linked |-> "", used |-> ""],
     loads |-> NoLoads,
     currentImage |-> Null,
     fullscreen |-> NoFullscreen,
     canvasStyle |-> StylesheetStyle, calls |-> <<>>,
     canvasSize |-> DefaultCanvasSize, canvasShared |-> {},
     slotItems |-> [n \in Slots |-> NoItem], appStateItem |-> NoItem,
     activeSlot |-> Null, touch |-> [n \in Slots |-> NoTouch],
     timers |-> {}, storageRefuses |-> FALSE,
     lastOp |-> [name |-> "init", seq |-> 0, tip |-> TRUE]]

\* loadInitialShader(), the last step of the constructor.
loadInitialShader(s) == startRendering(compileDefaultShader(loadAppState(s)))

StartIn(s) ==
    /\ codeText = s.codeText
    /\ shaderActive = s.shaderActive
    /\ rotation = s.rotation
    /\ mirrorX = s.mirrorX
    /\ mirrorY = s.mirrorY
    /\ canvasState = s.canvasState
    /\ zoomLevel = s.zoomLevel
    /\ bgColor = s.bgColor
    /\ useTransparent = s.useTransparent
    /\ history = s.history
    /\ historyIndex = s.historyIndex
    /\ startTime = s.startTime
    /\ pausedTime = s.pausedTime
    /\ timePaused = s.timePaused
    /\ image = s.image
    /\ imageTexture = s.imageTexture
    /\ program = s.program
    /\ texCoord = s.texCoord
    /\ animFrame = s.animFrame
    /\ rafQueue = s.rafQueue
    /\ drawn = s.drawn
    /\ texCall = s.texCall
    /\ currentProgram = s.currentProgram
    /\ vertexShader = s.vertexShader
    /\ fragmentShader = s.fragmentShader
    /\ glShaders = s.glShaders
    /\ glPrograms = s.glPrograms
    /\ glTextures = s.glTextures
    /\ glUsed = s.glUsed
    /\ uTime = s.uTime
    /\ export = s.export
    /\ now = s.now
    /\ pushes = s.pushes
    /\ lastOp = s.lastOp
    /\ canvasStyle = s.canvasStyle
    /\ canvasSize = s.canvasSize
    /\ canvasShared = s.canvasShared
    /\ slotItems = s.slotItems
    /\ appStateItem = s.appStateItem
    /\ activeSlot = s.activeSlot
    /\ touch = s.touch
    /\ timers = s.timers
    /\ storageRefuses = s.storageRefuses
    /\ glSource = s.glSource
    /\ loads = s.loads
    /\ currentImage = s.currentImage
    /\ fullscreen = s.fullscreen
    /\ calls = s.calls

\* The state after new GLSLWebUIApp(), with the textarea holding one of
\* texts.
Constructed(texts) ==
    \E text \in texts : StartIn(loadInitialShader(InitialState(text)))

\* Whatever the textarea holds.
Init == Constructed(ShaderTexts)

\* ---------------------------------------------------------------- actions
\* The user edits the textarea (typing, or a slot or file load).
EditText(text) ==
    /\ text # codeText
    /\ Commit([Cur EXCEPT !.codeText = text], "edit")

\* The clock advances.
Tick ==
    /\ now < MaxNow * TickMs
    /\ Commit([Cur EXCEPT !.now = @ + TickMs], "tick")

CompileShader == Commit(compileShader(Cur), "compile." \o CompileOutcome(Cur))

ToggleShader == Commit(toggleShader(Cur), "toggleShader")

SetRotation(degrees) == Commit(setRotation(Cur, degrees), "setRotation")

ToggleMirrorX == Commit(toggleMirrorX(Cur), "toggleMirrorX")

ToggleMirrorY == Commit(toggleMirrorY(Cur), "toggleMirrorY")

ResetMirror == Commit(resetMirror(Cur), "resetMirror")

ResetAllParameters == Commit(resetAllParameters(Cur), "resetAll")

\* getTransformedTexCoords is called directly with any rotation and flags.
TexCoordsCall(rot, mx, my) ==
    Commit([Cur EXCEPT !.texCall = [rotation |-> rot, mirrorX |-> mx, mirrorY |-> my,
                                    result |-> getTransformedTexCoords(rot, mx, my)]],
           "texCoords")

TogglePause == Commit(togglePause(Cur), IF timePaused THEN "resume" ELSE "pause")

Undo == Commit(undo(Cur), IF CanUndo(Cur) THEN "undo" ELSE "undo.noop")

Redo == Commit(redo(Cur), IF CanRedo(Cur) THEN "redo" ELSE "redo.noop")

\* An image finishes loading: ImageHandler notifies onImageLoaded.
ImageLoaded(img) == Commit(imageOnload(Cur, img), "imageLoaded")

\* An image finishes loading and the creation or the upload of its texture
\* fails.
ImageLoadedTextureFails(img, outcome) ==
    Commit(imageOnloadTextureFails(Cur, img, outcome), "imageLoaded." \o outcome)

\* The user picks a file, drops one, or enters a URL.
LoadImage(img) == Commit(loadImage(Cur, img), "loadImage")

\* A load in flight ends: its image decodes, with or without a texture, or
\* it fails.
LoadDone(l) == Commit(loadDone(Cur, l), "loadDone")

LoadDoneTextureFails(l, outcome) ==
    Commit(loadDoneTextureFails(Cur, l, outcome), "loadDone." \o outcome)

LoadError(l) == Commit(loadError(Cur, l), "loadError")

\* The canvas panel: the transform inputs, the aspect ratio, the reset and the
\* zoom.
SetCanvasTransform(transform) ==
    Commit(setCanvasTransform(Cur, transform), "setCanvasTransform")

ApplyAspectRatio(width, height) ==
    Commit(applyAspectRatio(Cur, width, height),
           IF image = Null THEN "applyAspectRatio.noop" ELSE "applyAspectRatio")

ResetCanvasTransform ==
    Commit(resetCanvasTransform(Cur),
           IF image = Null THEN "resetCanvasTransform.noop" ELSE "resetCanvasTransform")

SetZoom(zoom) == Commit(setZoom(Cur, zoom), "setZoom")

\* The save slots: click, right click, the unload button, the touch
\* listeners and the timers they arm.
SlotClick(n) == Commit(handleSlotClick(Cur, n), "slotClick." \o ToString(n))

SlotRightClick(n, confirmed) ==
    Commit(handleSlotRightClick(Cur, n, confirmed), "slotRightClick")

UnloadSlotClick ==
    /\ activeSlot # Null
    /\ Commit(unloadSlot(Cur), "unloadSlot")

TouchStart(n) ==
    /\ Cardinality(timers) < MaxTimers
    /\ Commit(touchstart(Cur, n), "touchstart")

TouchEnd(n) ==
    /\ Cardinality(touchend(Cur, n).timers) <= MaxTimers
    /\ Commit(touchend(Cur, n), "touchend")

TouchMove(n) == Commit(touchmove(Cur, n), "touchmove")

Timeout(t, confirmed) == Commit(timeout(Cur, t, confirmed), "timeout." \o t.kind)

\* localStorage starts or stops refusing writes.
StorageChanges == Commit([Cur EXCEPT !.storageRefuses = ~@], "storage")

\* Direct calls of the shader manager's methods.
VertexSources == {DefaultVertex, "badc"}

ManagerCompileProgram(vsrc, fsrc) ==
    Commit(compileProgram(Cur, vsrc, fsrc), "manager.compileProgram")

ManagerRecompile(fsrc) == Commit(recompile(Cur, fsrc), "manager.recompile")

ManagerCleanup == Commit(cleanup(Cur), "manager.cleanup")

UnloadImage ==
    Commit(unloadImage(Cur),
           IF currentImage # Null THEN "unloadImage" ELSE "unloadImage.noop")

\* Direct calls of startRendering and stopRendering.
StartRendering == Commit(startRendering(Cur), "startRendering")

StopRendering == Commit(stopRendering(Cur), "stopRendering")

\* The fullscreen button or the F key, the close button or Escape, the
\* preview's pause button.
OpenFullscreen(ctxOk) == Commit(openFullscreen(Cur, ctxOk), "openFullscreen")

CloseFullscreen == Commit(closeFullscreen(Cur), "closeFullscreen")

ToggleFullscreenPause == Commit(toggleFullscreenPause(Cur), "toggleFullscreenPause")

\* A pending frame callback of the preview runs.
FullscreenFrame ==
    \E id \in fullscreen.queue :
        Commit(animateFullscreen([Cur EXCEPT !.fullscreen.queue = @ \ {id}]),
               "fullscreenFrame")

\* A pending animation frame callback runs: the browser takes it off its
\* list and calls animate.
AnimateFrame ==
    \E id \in rafQueue :
        Commit(animate([Cur EXCEPT !.rafQueue = @ \ {id}]), "frame")

\* The user starts an animation export; one export runs at a time.
ExportAnimation(duration, fps, start) ==
    /\ ~export.active
    /\ Commit(exportAnimation(Cur, duration, fps, start), "exportFrame")

\* The export's sleep ends.
ExportResume ==
    /\ export.active
    /\ Commit(exportResume(Cur),
              IF export.frame + 1 < export.total THEN "exportFrame" ELSE "exportEnd")

\* ----------------------------------------------------------- specifications
\* The values the rotation presets and the export dialog can pass.
RotationInputs == {90, 450, -90}
UndoRotationInputs == {90, -90}
ExportDurations == {1, 2}
ExportFps == {1, 2}
ExportStarts == {0, 1}

\* A handler's result is within Spec's bound on history pushes, and within
\* SpecHistory's.
Bounded(s) == s.pushes <= MaxPushes
LongBounded(s) == s.pushes <= MaxLongPushes

\* SpecCompile: editing, compiling and toggling the shader.
NextCompile ==
    \/ \E text \in ShaderTexts : EditText(text)
    \/ Bounded(compileShader(Cur)) /\ CompileShader
    \/ Bounded(toggleShader(Cur)) /\ ToggleShader

SpecCompile == Init /\ [][NextCompile]_vars

\* SpecManager: SpecCompile's actions and direct calls of the shader
\* manager's compileProgram (with a vertex source that compiles or not),
\* recompile and cleanup.
NextManager ==
    \/ \E text \in ShaderTexts : EditText(text)
    \/ Bounded(compileShader(Cur)) /\ CompileShader
    \/ Bounded(toggleShader(Cur)) /\ ToggleShader
    \/ \E vsrc \in VertexSources, fsrc \in ShaderTexts \ {"", " "} :
           ManagerCompileProgram(vsrc, fsrc)
    \/ \E fsrc \in ShaderTexts \ {"", " "} : ManagerRecompile(fsrc)
    \/ ManagerCleanup

SpecManager == Init /\ [][NextManager]_vars

\* SpecCanvas: an image load, the canvas panel, the reset of all
\* parameters, undo and redo, with a textarea that is empty or holds a
\* source that compiles.
CanvasTexts == {"", "A"}

InitCanvas == Constructed(CanvasTexts)

CanvasInputs ==
    {[x |-> 0, y |-> 0, width |-> 0, height |-> 0],
     [x |-> 1, y |-> 0, width |-> 4, height |-> 2]}

AspectInputs == {<<2, 1>>, <<1, 2>>}

ZoomInputs == {2, 7}

NextCanvas ==
    \/ pushes = 0 /\ \E img \in Images : ImageLoaded(img)
    \/ \E t \in CanvasInputs : Bounded(setCanvasTransform(Cur, t)) /\ SetCanvasTransform(t)
    \/ \E a \in AspectInputs :
           Bounded(applyAspectRatio(Cur, a[1], a[2])) /\ ApplyAspectRatio(a[1], a[2])
    \/ Bounded(resetCanvasTransform(Cur)) /\ ResetCanvasTransform
    \/ Bounded(resetAllParameters(Cur)) /\ ResetAllParameters
    \/ \E z \in ZoomInputs : SetZoom(z)
    \/ Bounded(undo(Cur)) /\ Undo
    \/ Bounded(redo(Cur)) /\ Redo

SpecCanvas == InitCanvas /\ [][NextCanvas]_vars

\* SpecSlots: the save slots by mouse, with a textarea that is blank or
\* holds one of two sources, and a localStorage that accepts writes or
\* refuses them.
SlotTexts == {" "} \cup GoodTexts

InitSlots == Constructed(SlotTexts)

NextSlots ==
    \/ \E text \in SlotTexts : EditText(text)
    \/ \E n \in Slots : SlotClick(n)
    \/ \E n \in Slots, confirmed \in BOOLEAN : SlotRightClick(n, confirmed)
    \/ UnloadSlotClick
    \/ StorageChanges

SpecSlots == InitSlots /\ [][NextSlots]_vars

\* SpecTouch: the save slots by touch (touches that start, move and end,
\* and the timers coming due), with a textarea that is blank or holds a
\* source.
TouchTexts == {" ", "A"}

InitTouch == Constructed(TouchTexts)

NextTouch ==
    \/ \E text \in TouchTexts : EditText(text)
    \/ \E n \in Slots : TouchStart(n)
    \/ \E n \in Slots : TouchEnd(n)
    \/ \E n \in Slots : TouchMove(n)
    \/ \E t \in timers, confirmed \in BOOLEAN : Timeout(t, confirmed)

SpecTouch == InitTouch /\ [][NextTouch]_vars

\* SpecUndo: edits of the shader (to the empty text, to two sources that
\* compile and to one that does not) and of the transform, undo and redo,
\* for at most MaxPushes history pushes.
UndoTexts == {"", "badc"} \cup GoodTexts

InitUndo == Constructed(UndoTexts)

NextUndo ==
    \/ \E text \in UndoTexts : EditText(text)
    \/ Bounded(compileShader(Cur)) /\ CompileShader
    \/ \E d \in UndoRotationInputs : Bounded(setRotation(Cur, d)) /\ SetRotation(d)
    \/ Bounded(undo(Cur)) /\ Undo
    \/ Bounded(redo(Cur)) /\ Redo

SpecUndo == InitUndo /\ [][NextUndo]_vars

\* SpecHistory: a long history.  The textarea keeps the text it starts with
\* (empty, compiling or failing to compile), an image is loaded before the
\* first push or not at all, and every later push snapshots the same
\* transform, so that the history can grow past maxHistory; the entries
\* differ by their push ordinal.  The pause is toggled at any point.
HistoryTexts == {"", "A", "badc"}

InitHistory == Constructed(HistoryTexts)

NextHistory ==
    \/ pushes = 0 /\ \E img \in Images : ImageLoaded(img)
    \/ LongBounded(resetMirror(Cur)) /\ ResetMirror
    \/ LongBounded(compileShader(Cur)) /\ CompileShader
    \/ LongBounded(undo(Cur)) /\ Undo
    \/ LongBounded(redo(Cur)) /\ Redo
    \/ TogglePause

SpecHistory == InitHistory /\ [][NextHistory]_vars

\* SpecTime: the clock, the pause, the frames of the loop and of an export,
\* a transform edit and shader compiles.
TimeTexts == {"", "A", "badc"}

InitTime == Constructed(TimeTexts)

NextTime ==
    \/ Tick
    \/ TogglePause
    \/ AnimateFrame
    \/ \E d \in ExportDurations, f \in ExportFps, t \in ExportStarts : ExportAnimation(d, f, t)
    \/ ExportResume
    \/ Bounded(toggleMirrorX(Cur)) /\ ToggleMirrorX
    \/ Bounded(compileShader(Cur)) /\ CompileShader

SpecTime == InitTime /\ [][NextTime]_vars

\* SpecExport: animation exports of one or two seconds at one or two frames
\* per second, with the clock, the pause and the frames of the main loop.
ExportTexts == {"A"}

InitExport == Constructed(ExportTexts)

NextExport ==
    \/ Tick
    \/ TogglePause
    \/ AnimateFrame
    \/ \E d \in ExportDurations, f \in ExportFps, t \in ExportStarts : ExportAnimation(d, f, t)
    \/ ExportResume

SpecExport == InitExport /\ [][NextExport]_vars

\* SpecLoop: image loads (with the texture created, or not), unloads, the
\* frames of the main loop, and
\* compiles and toggles of a shader that compiles or does not.
LoopTexts == {"A", "badc"}

InitLoop == Constructed(LoopTexts)

NextLoop ==
    \/ \E img \in Images : Bounded(onImageLoaded(Cur, img)) /\ ImageLoaded(img)
    \/ \E img \in Images, outcome \in TextureFailures :
           Bounded(onImageLoadedTextureFails(Cur, img, outcome))
           /\ ImageLoadedTextureFails(img, outcome)
    \/ UnloadImage
    \/ AnimateFrame
    \/ Bounded(compileShader(Cur)) /\ CompileShader
    \/ Bounded(toggleShader(Cur)) /\ ToggleShader

SpecLoop == InitLoop /\ [][NextLoop]_vars

\* SpecRendering: SpecLoop's actions and direct calls of startRendering and
\* stopRendering.
NextRendering ==
    \/ StartRendering
    \/ StopRendering
    \/ AnimateFrame
    \/ \E img \in Images : Bounded(onImageLoaded(Cur, img)) /\ ImageLoaded(img)
    \/ UnloadImage
    \/ Bounded(compileShader(Cur)) /\ CompileShader
    \/ Bounded(toggleShader(Cur)) /\ ToggleShader

SpecRendering == InitLoop /\ [][NextRendering]_vars

\* SpecFullscreen: image loads and unloads and the fullscreen preview, with
\* at most MaxFsFrames of its frame requests pending.
FsBounded(s) == Cardinality(s.fullscreen.queue) <= MaxFsFrames

NextFullscreen ==
    \/ \E img \in Images : Bounded(onImageLoaded(Cur, img)) /\ ImageLoaded(img)
    \/ UnloadImage
    \/ \E ctxOk \in BOOLEAN :
           FsBounded(openFullscreen(Cur, ctxOk)) /\ OpenFullscreen(ctxOk)
    \/ CloseFullscreen
    \/ FsBounded(toggleFullscreenPause(Cur)) /\ ToggleFullscreenPause
    \/ FullscreenFrame

SpecFullscreen == InitLoop /\ [][NextFullscreen]_vars

\* SpecImages: image loads that end in any order, and unloads; at most
\* MaxRequests loads are requested.
NextImages ==
    \/ \E img \in LoadableImages : loads.requested < MaxRequests /\ LoadImage(img)
    \/ \E l \in loads.pending : Bounded(loadDone(Cur, l)) /\ LoadDone(l)
    \/ \E l \in loads.pending, outcome \in TextureFailures :
           Bounded(loadDoneTextureFails(Cur, l, outcome))
           /\ LoadDoneTextureFails(l, outcome)
    \/ \E l \in loads.pending : LoadError(l)
    \/ UnloadImage

SpecImages == InitLoop /\ [][NextImages]_vars

\* SpecCompileEffect: editing and compiling (the blank source of the start,
\* sources that compile, fail to compile or fail to link) between clock
\* ticks, pauses and mirror toggles, with at most MaxEffectPushes history
\* pushes.
EffectTexts == {"A", "badc", "badl"}

InitCompileEffect == Constructed({" "})

EffectBounded(s) == s.pushes <= MaxEffectPushes

NextCompileEffect ==
    \/ \E text \in EffectTexts : EditText(text)
    \/ EffectBounded(compileShader(Cur)) /\ CompileShader
    \/ Tick
    \/ TogglePause
    \/ EffectBounded(toggleMirrorX(Cur)) /\ ToggleMirrorX

SpecCompileEffect == InitCompileEffect /\ [][NextCompileEffect]_vars

\* SpecTransform: transform edits and resets, image loads and unloads, undo
\* and redo, with a textarea that is empty or holds a source that compiles.
TransformTexts == {"", "A"}

InitTransform == Constructed(TransformTexts)

NextTransform ==
    \/ \E d \in RotationInputs : Bounded(setRotation(Cur, d)) /\ SetRotation(d)
    \/ Bounded(toggleMirrorX(Cur)) /\ ToggleMirrorX
    \/ Bounded(toggleMirrorY(Cur)) /\ ToggleMirrorY
    \/ Bounded(resetMirror(Cur)) /\ ResetMirror
    \/ Bounded(resetAllParameters(Cur)) /\ ResetAllParameters
    \/ \E img \in Images : Bounded(onImageLoaded(Cur, img)) /\ ImageLoaded(img)
    \/ UnloadImage
    \/ Bounded(undo(Cur)) /\ Undo
    \/ Bounded(redo(Cur)) /\ Redo

SpecTransform == InitTransform /\ [][NextTransform]_vars

\* SpecTexCoords: getTransformedTexCoords called directly, with rotations in
\* steps of 45 degrees on both sides of 0 and every combination of flags.
TexRotations == {45 * k : k \in -MaxTurn..MaxTurn}

InitTexCoords == Constructed({""})

NextTexCoords ==
    \E rot \in TexRotations, mx \in BOOLEAN, my \in BOOLEAN : TexCoordsCall(rot, mx, my)

SpecTexCoords == InitTexCoords /\ [][NextTexCoords]_vars

\* ------------------------------------------------------------------ claims
\* The value render() would compute for the time uniform in this state.
currentTime == RenderTime(Cur)

\* The editable state as a history entry holds it, and an entry's content
\* without its ghost ordinal.
Content(e) ==
    [shaderCode |-> e.shaderCode, rotation |-> e.rotation,
     mirrorX |-> e.mirrorX, mirrorY |-> e.mirrorY,
     canvasState |-> e.canvasState, zoomLevel |-> e.zoomLevel,
     bgColor |-> e.bgColor, useTransparent |-> e.useTransparent]

LiveContent == Content(HistoryEntry(Cur))

\* The entries of the history made by push number n.
EntriesOfPush(n) == {i \in 1..Len(history) : history[i].seq = n}

\* The operations that call saveToHistory with the cursor where it was when
\* the operation started.
DirectPushOps ==
    {"compile.ok", "setRotation", "toggleMirrorX", "toggleMirrorY",
     "resetMirror", "resetAll", "imageLoaded"}

\* C1: when a compile fails (either stage, or the link) while a linked
\* program is current, the manager still holds that program afterwards and
\* the program has not been deleted.
C1_FailedCompileRetainsProgram ==
    [][(/\ lastOp'.name = "compile.failed"
        /\ currentProgram # Null
        /\ currentProgram \in glPrograms)
       => (/\ currentProgram' = currentProgram
           /\ currentProgram \in glPrograms')]_vars

\* C2: an undo taken with the cursor at the tip after N >= 2 pushes restores
\* the entry pushed at step N-1, and a redo taken right after that undo
\* restores the entry pushed at step N.
C2_UndoThenRedoRestore ==
    [][/\ (lastOp'.name = "undo" /\ AtTip)
          => LiveContent' = Content(history[historyIndex])
       /\ (/\ lastOp.name = "undo"
           /\ lastOp.tip
           /\ lastOp'.name \in {"redo", "redo.noop"})
          => \A i \in EntriesOfPush(lastOp.seq) :
                LiveContent' = Content(history[i])]_vars

\* C3: an undo with cursor c > 0 ends with the cursor at c-1, a redo with
\* cursor c < length-1 ends with the cursor at c+1, and neither changes the
\* history sequence.
C3_UndoRedoMoveCursorOnly ==
    [][/\ lastOp'.name = "undo"
          => (historyIndex' = historyIndex - 1 /\ history' = history)
       /\ lastOp'.name = "redo"
          => (historyIndex' = historyIndex + 1 /\ history' = history)]_vars

\* C4: a push made while the cursor is behind the tip truncates the forward
\* entries: the new entry directly follows the entry at the cursor and is
\* the tip.
C4_PushTruncatesRedo ==
    [][(/\ lastOp'.name \in DirectPushOps
        /\ pushes' = pushes + 1
        /\ historyIndex >= 0
        /\ historyIndex < Len(history) - 1)
       => (/\ Len(history') = historyIndex + 2
           /\ SubSeq(history', 1, historyIndex + 1) = SubSeq(history, 1, historyIndex + 1)
           /\ history'[Len(history')].seq = pushes')]_vars

\* C5: the history never holds more than maxHistory (50) entries.
C5_HistoryBounded == Len(history) <= maxHistory

\* C5 witness: the history is full and more than maxHistory entries have
\* been pushed.
C5_Witness == Len(history) = maxHistory /\ pushes > maxHistory

\* C6: a push onto a full history evicts exactly the oldest entry, keeps the
\* others in their order and leaves the cursor at the new tip; after pushes
\* 1..51 the history is the entries 2..51.
C6_EvictsOldest ==
    [][(pushes' = pushes + 1 /\ Len(history) = maxHistory)
       => (/\ Len(history') = maxHistory
           /\ SubSeq(history', 1, maxHistory - 1) = Tail(history)
           /\ history'[maxHistory].seq = pushes'
           /\ historyIndex' = maxHistory - 1
           /\ pushes' = maxHistory + 1
              => \A i \in 1..maxHistory : history'[i].seq = i + 1)]_vars

\* C6 witness: 51 entries have been pushed, the last by a transform edit, and
\* the history runs from entry 2 to entry 51 with the cursor at the tip.
C6_Witness ==
    /\ pushes = maxHistory + 1
    /\ lastOp.name = "resetMirror"
    /\ Len(history) = maxHistory
    /\ history[1].seq = 2
    /\ history[maxHistory].seq = maxHistory + 1
    /\ historyIndex = maxHistory - 1

\* C7: the cursor is within the history whenever the history is non-empty,
\* and is -1 exactly while the history is empty.
C7_CursorInRange ==
    /\ Len(history) > 0 => (0 <= historyIndex /\ historyIndex <= Len(history) - 1)
    /\ historyIndex = -1 <=> Len(history) = 0

\* C7 witness: after an eviction, an undo has left the cursor strictly inside
\* the history.
C7_Witness ==
    /\ pushes > maxHistory
    /\ lastOp.name = "undo"
    /\ 0 < historyIndex
    /\ historyIndex < Len(history) - 1

\* C8: an undo with the cursor at 0 or an empty history, and a redo with the
\* cursor at the tip, change nothing: history, cursor, shader text,
\* transform, canvas, time state, programs and GL objects.
C8_NoopUndoRedo ==
    [][lastOp'.name \in {"undo.noop", "redo.noop"}
       => UNCHANGED <<codeText, shaderActive, rotation, mirrorX, mirrorY,
                      canvasState, zoomLevel, bgColor, useTransparent,
                      history, historyIndex, startTime, pausedTime,
                      timePaused, image, imageTexture, program, texCoord,
                      animFrame, rafQueue, currentProgram, vertexShader,
                      fragmentShader, glShaders, glPrograms, glTextures,
                      glUsed, uTime, export, texCall, now, pushes>>]_vars

\* C8 witness: an undo was taken with the cursor at 0 of a history of
\* several entries, while time was paused.
C8_Witness ==
    /\ lastOp.name = "undo.noop"
    /\ historyIndex = 0
    /\ Len(history) > 1
    /\ timePaused

\* C9: resuming from a pause leaves the elapsed time render() computes equal
\* to the elapsed time frozen at the pause.
C9_ResumeContinuous ==
    [][lastOp'.name = "resume" => currentTime' = currentTime]_vars

\* C10: while timePaused stays true, the elapsed time render() feeds to the
\* time uniform does not change, whatever operation runs.
C10_FrozenWhilePaused ==
    [][(timePaused /\ timePaused') => currentTime' = currentTime]_vars

\* The explicit time of the frame an export is at, in milliseconds.
ExportTime(e) == e.start + e.frame * e.interval

\* C11: every frame drawn by the export's renderCallback(t) is drawn with
\* the time uniform at t, whatever the clock, startTime and the pause are.
C11_ExportFrameUsesExplicitTime ==
    [][lastOp'.name = "exportFrame"
       => \A i \in 1..Len(drawn') : drawn'[i].time = ExportTime(export')]_vars

\* C12: no operation draws while the shader manager has no linked program
\* or while there is no image texture (the buffers always exist).
C12_NoDrawWhenUnlinkedOrNoTexture ==
    [][\A i \in 1..Len(drawn') :
           drawn'[i].program # Null /\ drawn'[i].texture # Null]_vars

\* C13: when stopRendering has run (an image is unloaded) no frame callback
\* is pending and the loop's field is null; with no callback pending none
\* becomes pending, so no frame fires, until startRendering runs again
\* (only the constructor calls it); and stopRendering applied twice in a
\* row gives what it gives applied once.
C13_StopCancelsAndIsIdempotent ==
    [][/\ lastOp'.name = "unloadImage" => (rafQueue' = {} /\ animFrame' = Null)
       /\ rafQueue = {} => (rafQueue' = {} /\ lastOp'.name # "frame")
       /\ stopRendering(stopRendering(Cur)) = stopRendering(Cur)
       /\ stopRendering(stopRendering(Cur')) = stopRendering(Cur')]_vars

\* C13 witness: the loop was running with an image loaded, the image has been
\* unloaded, and nothing is pending.
C13_Witness ==
    /\ lastOp.name = "unloadImage"
    /\ pushes >= 1
    /\ image = Null
    /\ animFrame = Null
    /\ rafQueue = {}

\* C14: whenever an image is loaded and the manager holds a linked program,
\* a frame callback of the main loop is pending.
C14_LoopRunsWithImageAndProgram ==
    (image # Null /\ currentProgram # Null) => rafQueue # {}

\* C20: at most one texture is live, and it is the one the imageTexture
\* field holds.
C20_OneLiveTexture ==
    /\ Cardinality(glTextures) <= 1
    /\ glTextures = {imageTexture} \ {Null}

\* C20 witness: an image has just been loaded over a loaded image, after an
\* earlier unload, and one texture is live.
C20_Witness ==
    /\ lastOp.name = "imageLoaded"
    /\ pushes >= 3
    /\ Cardinality(glTextures) = 1
    /\ imageTexture \in glTextures

\* C15: in every reachable state in which an image is loaded (the states in
\* which the buffer maps the image), the texture-coordinate buffer holds
\* getTransformedTexCoords of the current rotation and mirror flags.
C15_TexCoordBufferFollowsTransform ==
    image # Null => texCoord = getTransformedTexCoords(rotation, mirrorX, mirrorY)

\* C18: in every reachable state the rotation is one of 0, 90, 180, 270.
C18_RotationCanonical == rotation \in {0, 90, 180, 270}

\* C19: from every reachable state, toggleMirrorX applied twice, and
\* toggleMirrorY applied twice, leave the mirror flags and the
\* texture-coordinate buffer as they were.
C19_MirrorTwiceIsIdentity ==
    /\ toggleMirrorX(toggleMirrorX(Cur)).mirrorX = mirrorX
    /\ toggleMirrorX(toggleMirrorX(Cur)).mirrorY = mirrorY
    /\ toggleMirrorX(toggleMirrorX(Cur)).texCoord = texCoord
    /\ toggleMirrorY(toggleMirrorY(Cur)).mirrorX = mirrorX
    /\ toggleMirrorY(toggleMirrorY(Cur)).mirrorY = mirrorY
    /\ toggleMirrorY(toggleMirrorY(Cur)).texCoord = texCoord

\* The documented base table of a canonical rotation, as four (U, V) pairs
\* in a row, and a table with U replaced by 1-U and V by 1-V as asked.
DocumentedTable(r) ==
    CASE r = 0   -> <<0, 1, 1, 1, 0, 0, 1, 0>>
      [] r = 90  -> <<0, 0, 0, 1, 1, 0, 1, 1>>
      [] r = 180 -> <<1, 0, 0, 0, 1, 1, 0, 1>>
      [] r = 270 -> <<1, 1, 1, 0, 0, 1, 0, 0>>

Mirrored(t, flipU, flipV) ==
    <<IF flipU THEN 1 - t[1] ELSE t[1], IF flipV THEN 1 - t[2] ELSE t[2],
      IF flipU THEN 1 - t[3] ELSE t[3], IF flipV THEN 1 - t[4] ELSE t[4],
      IF flipU THEN 1 - t[5] ELSE t[5], IF flipV THEN 1 - t[6] ELSE t[6],
      IF flipU THEN 1 - t[7] ELSE t[7], IF flipV THEN 1 - t[8] ELSE t[8]>>

Canonical == {0, 90, 180, 270}

\* The remainder of r by 360 with the sign of r: r less the whole turns in
\* it, counted towards zero.
TruncatedRemainder(r) ==
    IF r >= 0 THEN r - 360 * (r \div 360) ELSE r + 360 * ((-r) \div 360)

\* C16: a call of getTransformedTexCoords with a rotation of 0, 90, 180 or
\* 270 returns the documented table of that rotation with U replaced by 1-U
\* iff mirrorX and V by 1-V iff mirrorY.
C16_CanonicalTables ==
    (texCall.result # <<>> /\ texCall.rotation \in Canonical)
    => texCall.result = Mirrored(DocumentedTable(texCall.rotation),
                                 texCall.mirrorX, texCall.mirrorY)

\* C16 witness: the call with 270 degrees and both flags set has returned
\* the 270 table flipped in U and V.
C16_Witness ==
    texCall = [rotation |-> 270, mirrorX |-> TRUE, mirrorY |-> TRUE,
               result |-> <<0, 0, 0, 1, 1, 0, 1, 1>>]

\* C17 as stated: a call with a rotation that is not exactly 0, 90, 180 or
\* 270 returns the table of 0 degrees with the mirror flags applied.
C17_NonCanonicalFallsBack ==
    (texCall.result # <<>> /\ texCall.rotation \notin Canonical)
    => texCall.result = Mirrored(DocumentedTable(0), texCall.mirrorX, texCall.mirrorY)

\* C17 amended: a call returns the table of the rotation's remainder by 360
\* (taken with the sign of the rotation) when that remainder is 0, 90, 180
\* or 270, and the table of 0 degrees otherwise, with the mirror flags
\* applied: 450 gives the table of 90, -90 and 45 give the table of 0.
C17_FallsBackModulo360 ==
    texCall.result # <<>>
    => texCall.result =
         Mirrored(DocumentedTable(IF TruncatedRemainder(texCall.rotation) \in Canonical
                                  THEN TruncatedRemainder(texCall.rotation)
                                  ELSE 0),
                  texCall.mirrorX, texCall.mirrorY)

\* C17 witness: the call with -90 degrees and mirrorX set has returned the 0
\* table flipped in U.
C17_Witness ==
    texCall = [rotation |-> -90, mirrorX |-> TRUE, mirrorY |-> FALSE,
               result |-> <<1, 1, 0, 1, 1, 0, 0, 0>>]

\* C21: when the texture of a newly loaded image cannot be created or
\* uploaded while a texture is in place, imageTexture still refers to that
\* texture afterwards and the texture has not been deleted.
C21_FailedTextureKeepsPrevious ==
    [][(/\ lastOp'.name \in {"imageLoaded.null", "imageLoaded.noupload"}
        /\ imageTexture # Null)
       => (imageTexture' = imageTexture /\ imageTexture \in glTextures')]_vars

\* C22: the live shader objects are exactly the ones the manager's
\* vertexShader and fragmentShader fields refer to and the live program
\* objects exactly the one currentProgram refers to: nothing created is
\* left unreferenced (a failed createShader or createProgram has deleted
\* its object) and no field refers to a deleted object.
C22_NoDanglingOrLeakedHandles ==
    /\ glShaders = {vertexShader, fragmentShader} \ {Null}
    /\ glPrograms = {currentProgram} \ {Null}

\* A compile stopped at the fragment stage: the vertex shader is live and
\* referenced, the failed fragment shader is gone.
C22_Witness ==
    /\ lastOp.name \in {"manager.compileProgram", "manager.recompile", "compile.failed"}
    /\ vertexShader # Null
    /\ fragmentShader = Null
    /\ glShaders = {vertexShader}

\* C23: the application's program field and the manager's currentProgram
\* are the same program, and that program, when there is one, is not
\* deleted.
C23_ProgramFieldsAgree ==
    /\ program = currentProgram
    /\ program # Null => program \in glPrograms

\* C24: after a compile that linked, no shader object is live.
C24_ShadersDeletedAfterLink ==
    [][lastOp'.name = "compile.ok" => glShaders' = {}]_vars

\* C25: a compile that fails hands its caller an error value, not null.
C25_FailureReturnsError ==
    [][lastOp'.name = "compile.failed"
       => compileResult(Cur, DefaultVertex, Trim(codeText)) # Null]_vars

\* C26 (as stated): an undo or a redo that restores an entry calls
\* updateTransform, then compileShader, then updateCanvasDisplay.
C26_RestoreCompilesBeforeDisplay ==
    [][lastOp'.name \in {"undo", "redo"}
       => calls' = <<"updateTransform", "compileShader", "updateCanvasDisplay">>]_vars

\* C26 (amended): an undo or a redo that restores an entry sets the
\* textarea from the entry and then calls updateTransform,
\* updateCanvasDisplay and compileShader, in that order.
C26_RestoreDisplaysBeforeCompile ==
    [][lastOp'.name \in {"undo", "redo"}
       => /\ calls' = <<"updateTransform", "updateCanvasDisplay", "compileShader">>
          /\ codeText' = (IF lastOp'.name = "undo"
                          THEN history[historyIndex]
                          ELSE history[historyIndex + 2]).shaderCode]_vars

\* An undo has restored an entry whose shader compiled again.
C26_Witness ==
    /\ lastOp.name = "undo"
    /\ calls = <<"updateTransform", "updateCanvasDisplay", "compileShader">>
    /\ currentProgram # Null

\* C27: an entry that is in the history before and after a step (the same
\* push ordinal) has the same shader text, rotation, mirror flags, canvas
\* rectangle, zoom, background colour and transparent flag after it.
C27_EntriesImmutable ==
    [][\A i \in 1..Len(history), j \in 1..Len(history') :
           history[i].seq = history'[j].seq => history[i] = history'[j]]_vars

\* An in-place update of canvasState has been made with an entry in the
\* history that has another canvas rectangle.
C27_Witness ==
    /\ lastOp.name \in {"applyAspectRatio", "setCanvasTransform"}
    /\ \E i \in 1..Len(history) : history[i].canvasState # canvasState

\* The shader text stored in slot n of items, "" for an empty slot.
StoredText(items, n) ==
    IF items[n] = NoItem THEN "" ELSE ParseSlot(items[n]).shaderCode

C29_HoldDoesNotAlsoTap ==
    [][\A t \in timers \ timers' :
          (lastOp'.name = "timeout.tap" /\ t.held)
          => \A i \in 1..Len(calls') : calls'[i] # "handleSlotClick"]_vars

\* C30: while an export runs the render callback has been called once for
\* each frame so far, the k-th call (k from 0) with startTime + k / fps, in
\* strictly increasing order, with the recorder running; and when the
\* recorder is stopped the callback has been called exactly
\* floor(duration * fps) times.
C30_OneCallbackPerFrame ==
    [][/\ lastOp'.name = "exportFrame"
          => /\ export'.active
             /\ Len(export'.times) = export'.frame + 1
             /\ \A k \in 0..export'.frame :
                    export'.times[k + 1] = export'.start + k * export'.interval
             /\ \A k \in 1..export'.frame :
                    export'.times[k] < export'.times[k + 1]
       /\ lastOp'.name = "exportEnd"
          => /\ ~export'.active
             /\ Len(export.times) = export.total]_vars

\* The fourth and last callback of an export of 2 s at 2 frames per second
\* that starts at 1 s.
C30_Witness ==
    /\ lastOp.name = "exportFrame"
    /\ export.total = 4
    /\ export.times = <<1000, 1500, 2000, 2500>>

\* C31: an undo or a redo that restores an entry leaves timePaused,
\* pausedTime and startTime as they were.
C31_UndoRedoKeepTimeState ==
    [][lastOp'.name \in {"undo", "redo"}
       => /\ timePaused' = timePaused
          /\ pausedTime' = pausedTime
          /\ startTime' = startTime]_vars

\* C32: timePaused is true exactly when pausedTime is not null.
C32_PausedIffPausedTime == timePaused <=> pausedTime # NullTime

\* C33: at most one frame callback of the main loop is pending, and it is
\* the one animFrame holds.
C33_OneFramePending ==
    /\ Cardinality(rafQueue) <= 1
    /\ rafQueue \subseteq {animFrame}

\* startRendering has run while the loop was running (it was started by
\* the constructor and stops only in stopRendering).
C33_Witness ==
    /\ lastOp.name = "startRendering"
    /\ rafQueue = {animFrame}
    /\ image # Null

\* C34: at most one frame callback of the fullscreen preview is pending, and
\* none is pending while the preview is closed (so none fires after
\* closeFullscreen).
C34_OneFullscreenFramePending ==
    /\ Cardinality(fullscreen.queue) <= 1
    /\ fullscreen.display = "none" => fullscreen.queue = {}

\* C35: the onload of a load never replaces the image of a load that was
\* requested later: the current image is from the most recent request that
\* has completed.
C35_LatestRequestWins ==
    [][lastOp'.name = "loadDone" => loads'.current >= loads.current]_vars

\* C36: app.image is ImageHandler.currentImage, and imageTexture is non-null
\* exactly when an image is loaded.
C36_ImageAndTextureAgree ==
    /\ image = currentImage
    /\ imageTexture # Null <=> image # Null

\* C37: while shaderActive is false the program in use is the default
\* passthrough one.
C37_InactiveUsesDefault ==
    ~shaderActive => (glUsed # Null /\ glSource.used = DefaultFragment)

\* C38: a compileShader that fails or finds the textarea blank leaves the
\* history, the cursor, the time state and the transform as they were; a
\* successful one pushes one history entry and resets the time.
C38_OnlySuccessPushesAndResets ==
    [][/\ lastOp'.name \in {"compile.failed", "compile.empty"}
          => /\ history' = history /\ historyIndex' = historyIndex
             /\ pushes' = pushes
             /\ startTime' = startTime /\ timePaused' = timePaused
             /\ pausedTime' = pausedTime
             /\ rotation' = rotation /\ mirrorX' = mirrorX /\ mirrorY' = mirrorY
       /\ lastOp'.name = "compile.ok"
          => /\ pushes' = pushes + 1
             /\ historyIndex' = Len(history') - 1
             /\ history'[Len(history')].shaderCode = codeText
             /\ startTime' = now /\ ~timePaused' /\ pausedTime' = NullTime]_vars

\* A compile has failed while the time was paused, the clock had advanced
\* and the history had entries.
C38_Witness ==
    /\ lastOp.name = "compile.failed"
    /\ timePaused /\ pausedTime > 0
    /\ history # <<>>
    /\ mirrorX

\* C39: activeSlot is null or the number of a slot that holds saved data.
C39_ActiveSlotIsFilled ==
    activeSlot = Null \/ slotItems[activeSlot] # NoItem

=============================================================================
